---- MODULE Spec2Model ----
(***************************************************************************)
(* nextmeet: OAuth2 token lifecycle (tokens.rs), meeting selection         *)
(* (meetings.rs) and the command-line front end (main.rs).                 *)
(*                                                                         *)
(* Option<T> is modelled as a sequence of length 0 (None) or 1 (Some).     *)
(* Result<T, E> is a record [ok, val, err].  A panic (unwrap / expect on   *)
(* an absent value) ends the process with exit status 101.                 *)
(***************************************************************************)
EXTENDS Integers, Sequences, FiniteSets, TLC

VARIABLES
    file,       \* content of ~/.nextmeet (the Credential Store)
    args,       \* set of command-line options given to this invocation
    pc,         \* position of the process
    cur,        \* the Result<Tokens> in flight in the token chain
    env,        \* what the outside world answered to the last operation
    log,        \* operations of tokens.rs called so far in this invocation
    resp,       \* the calendar response of this invocation
    now,        \* Local::now() taken by the caller of next_meeting
    out,        \* what the selection produced (indices into resp.items)
    exit_code   \* process exit status, Running while the process lives

vars == <<file, args, pc, cur, env, log, resp, now, out, exit_code>>

(***************************************************************************)
(* Bounds                                                                  *)
(***************************************************************************)
MaxArgs == 2         \* options on the command line
MaxItems == 1        \* events in the calendar response of a whole run
MaxMeetings == 2     \* events in the list given to the selection functions
MaxTick == 2         \* instants are 0..MaxTick, in ticks
MaxAttendees == 3    \* attendee entries of a meeting
MaxDesc == 5         \* tokens of a description

TicksPerSec == 2     \* resolution of an instant: ticks per second

Running == 0 - 1

(***************************************************************************)
(* Option and Result                                                       *)
(***************************************************************************)
None == <<>>
Some(x) == <<x>>
is_some(o) == o # <<>>

\* Option::or
or(a, b) == IF is_some(a) THEN a ELSE b

AccessTokens == {"a1", "a2"}
RefreshTokens == {"r1", "r2"}
OptRefresh == {None} \cup {Some(r) : r \in RefreshTokens}

Tokens == [access_token : AccessTokens, refresh_token : OptRefresh]
NoTokens == [access_token |-> "", refresh_token |-> None]

Ok(v) == [ok |-> TRUE, val |-> v, err |-> ""]
Err(e) == [ok |-> FALSE, val |-> NoTokens, err |-> e]

(***************************************************************************)
(* Credential Store.  The file is absent, or holds a text: the JSON        *)
(* object serde writes, or something serde cannot parse.                   *)
(***************************************************************************)
NoFile == <<"absent">>
Garbage == <<"garbage">>

\* serde_json::to_string(&Tokens)
to_string(t) ==
    <<"json", t.access_token,
      IF is_some(t.refresh_token) THEN t.refresh_token[1] ELSE "null">>

\* serde_json::from_str::<Tokens>
from_str(text) ==
    IF text[1] = "json"
    THEN Ok([access_token |-> text[2],
             refresh_token |-> IF text[3] = "null" THEN None ELSE Some(text[3])])
    ELSE Err("Failed to parse file")

FileStates == {NoFile, Garbage} \cup {to_string(t) : t \in Tokens}

\* std::fs::write either succeeds, is refused, or fails after truncating
SaveOutcomes == {"ok", "denied", "truncated"}

\* Tokens::save: the file after the call and the Result<()> as a boolean
save(t, old, outcome) ==
    CASE outcome = "ok"        -> [file |-> to_string(t), ok |-> TRUE]
      [] outcome = "denied"    -> [file |-> old, ok |-> FALSE]
      [] outcome = "truncated" -> [file |-> Garbage, ok |-> FALSE]

\* Tokens::load
load(f) ==
    IF f = NoFile THEN Err("File not found") ELSE from_str(f)

(***************************************************************************)
(* The provider's token endpoint and the browser callback                  *)
(***************************************************************************)
Rejected == [ok |-> FALSE, access_token |-> "", refresh_token |-> None]
ProviderReplies ==
    {Rejected} \cup
    {[ok |-> TRUE, access_token |-> a, refresh_token |-> r] :
        a \in AccessTokens, r \in OptRefresh}

\* what arrives on 127.0.0.1:35426
Callbacks == {"bind_fail", "malformed", "nocode", "code"}

NoEnv == [cb |-> "-", reply |-> Rejected, save |-> "-"]

\* the answers an operation can observe; answers it never looks at are
\* left at their default so that they do not multiply states
RefreshEnvs(self) ==
    IF ~is_some(self.refresh_token) THEN {NoEnv}
    ELSE {[cb |-> "-", reply |-> Rejected, save |-> "-"]} \cup
         {[cb |-> "-", reply |-> r, save |-> s] :
             r \in ProviderReplies \ {Rejected}, s \in SaveOutcomes}

LoginEnvs ==
    {[cb |-> c, reply |-> Rejected, save |-> "-"] : c \in Callbacks} \cup
    {[cb |-> "code", reply |-> r, save |-> s] :
        r \in ProviderReplies \ {Rejected}, s \in SaveOutcomes}

\* refresh that forgets the original refresh token
refresh_drops_token(self, f, e) ==
    IF is_some(self.refresh_token)
    THEN IF e.reply.ok
         THEN LET tokens == [access_token |-> e.reply.access_token,
                             refresh_token |-> e.reply.refresh_token]
                  sv == save(tokens, f, e.save)
              IN  [panic |-> FALSE,
                   calls |-> <<"exchange_refresh_token", "save">>,
                   file |-> sv.file,
                   res |-> IF sv.ok THEN Ok(tokens)
                           ELSE Err("Error saving tokens to disk")]
         ELSE [panic |-> FALSE, calls |-> <<"exchange_refresh_token">>,
               file |-> f, res |-> Err("Failed to refresh tokens")]
    ELSE [panic |-> FALSE, calls |-> <<>>, file |-> f,
          res |-> Err("No refresh token available")]

\* Tokens::refresh
refresh(self, f, e) ==
    IF is_some(self.refresh_token)
    THEN IF e.reply.ok
         THEN LET tokens == [access_token |-> e.reply.access_token,
                             refresh_token |->
                                 or(e.reply.refresh_token, Some(self.refresh_token[1]))]
                  sv == save(tokens, f, e.save)
              IN  [panic |-> FALSE,
                   calls |-> <<"exchange_refresh_token", "save">>,
                   file |-> sv.file,
                   res |-> IF sv.ok THEN Ok(tokens)
                           ELSE Err("Error saving tokens to disk")]
         ELSE [panic |-> FALSE, calls |-> <<"exchange_refresh_token">>,
               file |-> f, res |-> Err("Failed to refresh tokens")]
    ELSE [panic |-> FALSE, calls |-> <<>>, file |-> f,
          res |-> Err("No refresh token available")]

\* Tokens::do_login
do_login(f, e) ==
    CASE e.cb = "bind_fail" ->
            [panic |-> TRUE, calls |-> <<"xdg-open", "bind">>,
             file |-> f, res |-> Err("panic")]
      [] e.cb = "malformed" ->
            [panic |-> TRUE, calls |-> <<"xdg-open", "bind", "accept">>,
             file |-> f, res |-> Err("panic")]
      [] e.cb = "nocode" ->
            [panic |-> TRUE, calls |-> <<"xdg-open", "bind", "accept", "respond">>,
             file |-> f, res |-> Err("panic")]
      [] e.cb = "code" ->
            IF e.reply.ok
            THEN LET tokens == [access_token |-> e.reply.access_token,
                                refresh_token |-> e.reply.refresh_token]
                     sv == save(tokens, f, e.save)
                 IN  [panic |-> FALSE,
                      calls |-> <<"xdg-open", "bind", "accept", "respond",
                                  "exchange_code", "save">>,
                      file |-> sv.file,
                      res |-> IF sv.ok THEN Ok(tokens)
                              ELSE Err("Error saving tokens to disk")]
            ELSE [panic |-> FALSE,
                  calls |-> <<"xdg-open", "bind", "accept", "respond",
                              "exchange_code">>,
                  file |-> f, res |-> Err("Failed to get access token")]

(***************************************************************************)
(* Meetings (meetings.rs).  An instant is a number of ticks, TicksPerSec   *)
(* ticks to the second.  A dateTime string is modelled by whether chrono   *)
(* parses it and by the instant it then denotes.  start and end are the    *)
(* Option of that string: an absent MeetTime and a MeetTime without        *)
(* dateTime take the same match arm.                                       *)
(*                                                                         *)
(* A text (description, link) is a sequence of tokens:                     *)
(*   "H"  https://                                                         *)
(*   "A"  a text the pattern app.gather.town matches                       *)
(*   "Z"  a text the pattern zoom.us matches                               *)
(*   "c"  any other text without white space or double quote               *)
(*   "s"  white space          "q"  a double quote                         *)
(***************************************************************************)
Alphabet == {"H", "A", "Z", "c", "s", "q"}

BadTime == [valid |-> FALSE, instant |-> 0]
TimeStr(t) == [valid |-> TRUE, instant |-> t]

Statuses == {"accepted", "declined", "pending"}
Attendee == [response_status : Statuses, is_self : BOOLEAN]

\* sequences over S of length at most n
SeqUpTo(S, n) == UNION {[1..k -> S] : k \in 0..n}

\* str.parse::<DateTime<Local>>()
parse(s) == [ok |-> s.valid, t |-> IF s.valid THEN s.instant ELSE 0]

\* Meeting::start
start(m) == IF is_some(m.start) THEN parse(m.start[1]) ELSE [ok |-> FALSE, t |-> 0]

\* Meeting::end
end(m) == IF is_some(m.end) THEN parse(m.end[1]) ELSE [ok |-> FALSE, t |-> 0]

\* any that does not look at is_self
RECURSIVE any_accepted(_, _)
any_accepted(att, i) ==
    IF i > Len(att) THEN FALSE
    ELSE IF att[i].response_status = "accepted" THEN TRUE
    ELSE any_accepted(att, i + 1)

\* Iterator::any over the attendees from position i, stopping at the first hit
RECURSIVE any_self_accepted(_, _)
any_self_accepted(att, i) ==
    IF i > Len(att) THEN FALSE
    ELSE IF att[i].is_self /\ att[i].response_status = "accepted" THEN TRUE
    ELSE any_self_accepted(att, i + 1)

\* Meeting::accepted
accepted(m) == any_self_accepted(m.attendees, 1)

\* [^\s"]
NonSpace(c) == c \notin {"s", "q"}

\* greedy [^\s"]* from position j: the last position it consumes (j - 1 if none)
RECURSIVE RunEnd(_, _)
RunEnd(d, j) ==
    IF j <= Len(d) /\ NonSpace(d[j]) THEN RunEnd(d, j + 1) ELSE j - 1

\* Regex "https://app.gather.town[^\s\"]*" anchored at position i
GatherAt(d, i) == d[i] = "H" /\ i + 1 <= Len(d) /\ d[i + 1] = "A"

\* Regex "https://[^\s\"]*zoom.us[^\s\"]*" anchored at position i
ZoomAt(d, i) ==
    /\ d[i] = "H"
    /\ \E k \in (i + 1)..RunEnd(d, i + 1) : d[k] = "Z"

\* Regex::find: the leftmost match, scanning from position i
RECURSIVE find_gather(_, _)
find_gather(d, i) ==
    IF i > Len(d) THEN None
    ELSE IF GatherAt(d, i) THEN Some(SubSeq(d, i, RunEnd(d, i + 2)))
    ELSE find_gather(d, i + 1)

RECURSIVE find_zoom(_, _)
find_zoom(d, i) ==
    IF i > Len(d) THEN None
    ELSE IF ZoomAt(d, i) THEN Some(SubSeq(d, i, RunEnd(d, i + 1)))
    ELSE find_zoom(d, i + 1)

\* get_link that prefers the zoom link
get_link_zoom_first(m) ==
    LET description_link ==
            IF is_some(m.description)
            THEN or(find_zoom(m.description[1], 1), find_gather(m.description[1], 1))
            ELSE None
    IN  or(description_link, m.hangout_link)

\* Meeting::get_link
get_link(m) ==
    LET description_link ==
            IF is_some(m.description)
            THEN LET gather_link == find_gather(m.description[1], 1)
                     zoom_link == find_zoom(m.description[1], 1)
                 IN  or(gather_link, zoom_link)
            ELSE None
    IN  or(description_link, m.hangout_link)

\* TimeDelta::num_seconds: whole seconds, truncated toward zero
num_seconds(d) ==
    IF d >= 0 THEN d \div TicksPerSec ELSE 0 - ((0 - d) \div TicksPerSec)

\* i64::abs
abs(x) == IF x >= 0 THEN x ELSE 0 - x

\* the filter closure of next_meeting
next_filter(m, n) ==
    /\ is_some(get_link(m))
    /\ start(m).ok
    /\ (LET se == end(m) IN IF se.ok THEN se.t > n ELSE FALSE)
    /\ accepted(m)

\* the key closure of next_meeting
next_key(m, n) == abs(num_seconds(start(m).t - n))

\* Iterator::filter over positions i..Len(ms): the positions kept, in order
RECURSIVE filter_next(_, _, _)
filter_next(ms, n, i) ==
    IF i > Len(ms) THEN <<>>
    ELSE IF next_filter(ms[i], n) THEN <<i>> \o filter_next(ms, n, i + 1)
    ELSE filter_next(ms, n, i + 1)

\* min_by_key that lets a later element win a tie
RECURSIVE min_by_key_last(_, _, _, _)
min_by_key_last(ms, n, best, rest) ==
    IF rest = <<>> THEN best
    ELSE LET y == Head(rest) IN
         IF next_key(ms[best], n) >= next_key(ms[y], n)
         THEN min_by_key_last(ms, n, y, Tail(rest))
         ELSE min_by_key_last(ms, n, best, Tail(rest))

\* Iterator::min_by_key as a fold: the later element replaces the best so
\* far only when its key is strictly smaller
RECURSIVE min_by_key(_, _, _, _)
min_by_key(ms, n, best, rest) ==
    IF rest = <<>> THEN best
    ELSE LET y == Head(rest) IN
         IF next_key(ms[best], n) > next_key(ms[y], n)
         THEN min_by_key(ms, n, y, Tail(rest))
         ELSE min_by_key(ms, n, best, Tail(rest))

\* next_meeting: the position of the chosen meeting, as an Option
next_meeting(ms, n) ==
    LET kept == filter_next(ms, n, 1) IN
    IF kept = <<>> THEN None
    ELSE Some(min_by_key(ms, n, Head(kept), Tail(kept)))

\* retrieve_all's filter without the link test
all_filter_no_link(m) == start(m).ok /\ accepted(m)

\* the filter closure of retrieve_all
all_filter(m) == start(m).ok /\ accepted(m) /\ is_some(get_link(m))

RECURSIVE filter_all(_, _)
filter_all(ms, i) ==
    IF i > Len(ms) THEN <<>>
    ELSE IF all_filter(ms[i]) THEN <<i>> \o filter_all(ms, i + 1)
    ELSE filter_all(ms, i + 1)

\* stable insertion of position x into a sequence sorted by start
RECURSIVE insert_by_start(_, _, _)
insert_by_start(ms, sorted, x) ==
    IF sorted = <<>> THEN <<x>>
    ELSE IF start(ms[Head(sorted)]).t <= start(ms[x]).t
         THEN <<Head(sorted)>> \o insert_by_start(ms, Tail(sorted), x)
         ELSE <<x>> \o sorted

\* slice::sort_by_key(|m| m.start().unwrap()): a stable sort
RECURSIVE sort_by_key(_, _, _)
sort_by_key(ms, done, todo) ==
    IF todo = <<>> THEN done
    ELSE sort_by_key(ms, insert_by_start(ms, done, Head(todo)), Tail(todo))

\* retrieve_all after the fetch: the positions returned, in order
retrieve_all(ms) == sort_by_key(ms, <<>>, filter_all(ms, 1))

(***************************************************************************)
(* The front end                                                           *)
(***************************************************************************)
Options == {"-m", "-d", "-j", "-mf", "-al", "-a"}
ArgSets == {a \in SUBSET Options : Cardinality(a) <= MaxArgs}

\* the branch of main an invocation takes
Mode(a) ==
    IF "-j" \in a THEN "json"
    ELSE IF "-mf" \in a THEN "machine_full"
    ELSE IF "-al" \in a THEN "additional_links"
    ELSE IF "-a" \in a THEN "all_meets"
    ELSE IF "-m" \in a THEN "only_link"
    ELSE "default"

\* the modes whose token comes from retrieve_tokens
UsesRetrieveTokens(a) == Mode(a) \notin {"machine_full", "additional_links"}

\* retrieve_tokens without the second or_else
retrieve_tokens_no_fallback(at, res) ==
    CASE at = "load"    -> IF res.ok THEN "refresh" ELSE "login1"
      [] at = "login1"  -> IF res.ok THEN "refresh" ELSE "return"
      [] at = "refresh" -> "return"
      [] at = "login2"  -> "return"

\* retrieve_tokens: where the chain goes after the operation at `at`
\* returned res; "return" leaves the function with res
retrieve_tokens(at, res) ==
    CASE at = "load"    -> IF res.ok THEN "refresh" ELSE "login1"
      [] at = "login1"  -> IF res.ok THEN "refresh" ELSE "return"
      [] at = "refresh" -> IF res.ok THEN "return" ELSE "login2"
      [] at = "login2"  -> "return"

\* -mf and -al going through the whole chain of retrieve_tokens
load_and_refresh_then_login(at, res) == retrieve_tokens(at, res)

\* main, -mf and -al: Tokens::load().and_then(|t| t.refresh())
load_and_refresh(at, res) ==
    CASE at = "load"    -> IF res.ok THEN "refresh" ELSE "return"
      [] at = "refresh" -> "return"

Chain(a, at, res) ==
    IF UsesRetrieveTokens(a) THEN retrieve_tokens(at, res)
    ELSE load_and_refresh(at, res)

NotFetched == [net |-> "none", parse_ok |-> FALSE, items |-> <<>>]

\* one operation of the token chain has produced r
TokenStep(at, r, e) ==
    LET next == IF r.panic THEN "panic" ELSE Chain(args, at, r.res) IN
    /\ file' = r.file
    /\ cur' = r.res
    /\ env' = e
    /\ log' = Append(log, [op |-> IF at \in {"login1", "login2"} THEN "do_login" ELSE at,
                           calls |-> r.calls, res |-> r.res, panic |-> r.panic,
                           file |-> r.file])
    /\ pc' = CASE next = "panic" -> "exit"
               [] next = "return" -> IF r.res.ok THEN "fetch" ELSE "exit"
               [] OTHER -> next
    /\ exit_code' = CASE next = "panic" -> 101
                      [] next = "return" /\ ~r.res.ok -> 1
                      [] OTHER -> Running
    /\ UNCHANGED <<args, resp, now, out>>

Load ==
    /\ pc = "load"
    /\ TokenStep("load",
                 [panic |-> FALSE, calls |-> <<"read_to_string">>,
                  file |-> file, res |-> load(file)],
                 NoEnv)

Refresh ==
    /\ pc = "refresh"
    /\ \E e \in RefreshEnvs(cur.val) :
          TokenStep("refresh", refresh(cur.val, file, e), e)

LoginAfterLoad ==
    /\ pc = "login1"
    /\ \E e \in LoginEnvs : TokenStep("login1", do_login(file, e), e)

LoginAfterRefresh ==
    /\ pc = "login2"
    /\ \E e \in LoginEnvs : TokenStep("login2", do_login(file, e), e)

(***************************************************************************)
(* The calendar request and the presentation                               *)
(***************************************************************************)
Meeting(st, en, link, desc, att) ==
    [start |-> st, end |-> en, hangout_link |-> link,
     description |-> desc, attendees |-> att]

Opt(S) == {None} \cup {Some(x) : x \in S}

Instants == 0..MaxTick
TimeStrs == {BadTime} \cup {TimeStr(t) : t \in Instants}

NativeLink == <<"H", "c">>
SelfAccepted == [response_status |-> "accepted", is_self |-> TRUE]

\* the events a whole run is given: with or without start, link, acceptance
RunMeetings ==
    {Meeting(st, Some(TimeStr(MaxTick)), link, None, att) :
        st \in {None, Some(TimeStr(1))},
        link \in Opt({NativeLink}),
        att \in {<<>>, <<SelfAccepted>>}}

Responses ==
    {[net |-> "err", parse_ok |-> FALSE, items |-> <<>>],
     [net |-> "ok", parse_ok |-> FALSE, items |-> <<>>]} \cup
    {[net |-> "ok", parse_ok |-> TRUE, items |-> ms] :
        ms \in SeqUpTo(RunMeetings, MaxItems)}

\* today_meetings_json: the request went through and a body came back
today_meetings_json(r) == r.net = "ok"

\* today_meetings: the body also deserializes into a Response
today_meetings(r) == today_meetings_json(r) /\ r.parse_ok

\* what the branch of main does with the events: the positions it prints
Selection(mode, ms, n) ==
    CASE mode = "json" -> <<>>
      [] mode = "all_meets" -> retrieve_all(ms)
      [] OTHER -> next_meeting(ms, n)

\* main that exits 0 whatever was selected
exit_status_zero(mode, ms, sel) == 0

\* main: the exit status once the events are there
exit_status(mode, ms, sel) ==
    IF mode = "only_link"
    THEN IF is_some(sel) /\ is_some(get_link(ms[sel[1]])) THEN 0 ELSE 1
    ELSE 0

\* json(), retrieve_with_tokens(), retrieve_all(): the calendar request
Fetch ==
    /\ pc = "fetch"
    /\ \E r \in Responses, n \in {1, MaxTick} :
          LET fetched == IF Mode(args) = "json" THEN today_meetings_json(r)
                         ELSE today_meetings(r) IN
          /\ resp' = r
          /\ now' = n
          /\ pc' = IF fetched THEN "present" ELSE "exit"
          /\ exit_code' = IF fetched THEN Running ELSE 1
    /\ UNCHANGED <<file, args, cur, env, log, out>>

\* main: select, print, exit
Present ==
    /\ pc = "present"
    /\ out' = Selection(Mode(args), resp.items, now)
    /\ exit_code' = exit_status(Mode(args), resp.items, out')
    /\ pc' = "exit"
    /\ UNCHANGED <<file, args, cur, env, log, resp, now>>

\* the user runs the program again; only the credential file survives
Restart ==
    /\ pc = "exit"
    /\ args' \in ArgSets
    /\ pc' = "load"
    /\ cur' = Err("")
    /\ env' = NoEnv
    /\ log' = <<>>
    /\ resp' = NotFetched
    /\ now' = 0
    /\ out' = <<>>
    /\ exit_code' = Running
    /\ UNCHANGED file

Init ==
    /\ file \in FileStates
    /\ args \in ArgSets
    /\ pc = "load"
    /\ cur = Err("")
    /\ env = NoEnv
    /\ log = <<>>
    /\ resp = NotFetched
    /\ now = 0
    /\ out = <<>>
    /\ exit_code = Running

Next ==
    \/ Load
    \/ Refresh
    \/ LoginAfterLoad
    \/ LoginAfterRefresh
    \/ Fetch
    \/ Present
    \/ Restart

Spec == Init /\ [][Next]_vars

(***************************************************************************)
(* The pure functions of meetings.rs, each applied to inputs drawn from    *)
(* bounded sets.  resp.items holds the input, out the returned value.      *)
(***************************************************************************)
Given(ms) == [net |-> "ok", parse_ok |-> TRUE, items |-> ms]

PureInit(ms, n, at) ==
    /\ file = NoFile
    /\ args = {}
    /\ pc = at
    /\ cur = Err("")
    /\ env = NoEnv
    /\ log = <<>>
    /\ resp = Given(ms)
    /\ now = n
    /\ out = <<>>
    /\ exit_code = Running

Returns(at, to, v) ==
    /\ pc = at
    /\ out' = v
    /\ pc' = to
    /\ UNCHANGED <<file, args, cur, env, log, resp, now, exit_code>>

\* Meeting::accepted on every attendee list
InitAccepted ==
    \E att \in SeqUpTo(Attendee, MaxAttendees) :
        PureInit(<<Meeting(None, None, None, None, att)>>, 0, "accepted")

CallAccepted == Returns("accepted", "accepted_done", accepted(resp.items[1]))

SpecAccepted == InitAccepted /\ [][CallAccepted]_vars

\* Meeting::get_link on every description and native link
InitLink ==
    \E desc \in Opt(SeqUpTo(Alphabet, MaxDesc)), link \in Opt({NativeLink}) :
        PureInit(<<Meeting(None, None, link, desc, <<>>)>>, 0, "get_link")

CallGetLink == Returns("get_link", "get_link_done", get_link(resp.items[1]))

SpecLink == InitLink /\ [][CallGetLink]_vars

\* next_meeting and retrieve_all on every list of meetings; a meeting ends
\* at the first instant or after the last one
EndStrs == {BadTime, TimeStr(0), TimeStr(MaxTick + 1)}

SelectMeetings ==
    {Meeting(st, en, link, None, att) :
        st \in Opt(TimeStrs), en \in Opt(EndStrs),
        link \in Opt({NativeLink}), att \in {<<>>, <<SelfAccepted>>}}

InitSelect ==
    \E k \in 0..MaxMeetings, n \in Instants :
        \E ms \in [1..k -> SelectMeetings] : PureInit(ms, n, "select")

CallNextMeeting == Returns("select", "next_meeting_done", next_meeting(resp.items, now))

CallRetrieveAll == Returns("select", "retrieve_all_done", retrieve_all(resp.items))

NextSelect == CallNextMeeting \/ CallRetrieveAll

SpecSelect == InitSelect /\ [][NextSelect]_vars

(***************************************************************************)
(* Properties of the token lifecycle and of the front end (Spec)           *)
(***************************************************************************)
Last == log[Len(log)]

\* the token chain of this invocation is over
ChainDone == pc \in {"fetch", "present", "exit"}

LoginCount == Cardinality({i \in 1..Len(log) : log[i].op = "do_login"})

\* C1: in retrieve_tokens, when the persisted pair loads and the refresh
\* fails, do_login runs next and its outcome is what retrieve_tokens
\* returns; the error of the refresh is never what the caller gets.
C1_RefreshFailureFallsBackToLogin ==
    UsesRetrieveTokens(args) =>
        \A i \in 2..Len(log) :
            (/\ log[i - 1].op = "load" /\ log[i - 1].res.ok
             /\ log[i].op = "refresh" /\ ~log[i].res.ok)
            => \/ /\ Len(log) = i
                  /\ pc = "login2"
                  /\ exit_code = Running
               \/ /\ Len(log) = i + 1
                  /\ log[i + 1].op = "do_login"
                  /\ ChainDone
                  /\ cur = log[i + 1].res
                  /\ cur.err \notin {"Failed to refresh tokens",
                                     "No refresh token available"}

\* a run where the pair loaded, the refresh failed and the login that
\* followed produced the tokens handed to the caller
C1_Witness ==
    /\ UsesRetrieveTokens(args)
    /\ Len(log) = 3
    /\ log[1].op = "load" /\ log[1].res.ok
    /\ log[2].op = "refresh" /\ ~log[2].res.ok
    /\ log[3].op = "do_login" /\ log[3].res.ok
    /\ pc = "fetch"
    /\ cur = log[3].res

\* C2: in retrieve_tokens, when loading the persisted pair fails, the
\* Authorization Flow runs and its tokens are returned at once: no refresh
\* is attempted in the invocation and do_login runs at most once.
C2_LoginAfterLoadFailureReturns ==
    (/\ UsesRetrieveTokens(args)
     /\ Len(log) >= 1
     /\ log[1].op = "load" /\ ~log[1].res.ok)
    => /\ \A i \in 1..Len(log) : log[i].op # "refresh"
       /\ LoginCount <= 1

\* C3: when retrieve_tokens is over, either it returned a pair that a
\* refresh or a do_login of this invocation produced and saved, the
\* credential file holding exactly that pair, or it returned an explicit
\* error.
C3_ReturnsSavedPairOrError ==
    (UsesRetrieveTokens(args) /\ Len(log) > 0 /\ ChainDone)
    => \/ /\ cur.ok
          /\ Last.op \in {"refresh", "do_login"}
          /\ Last.res = cur
          /\ Last.calls[Len(Last.calls)] = "save"
          /\ file = to_string(cur.val)
       \/ /\ ~cur.ok
          /\ ~Last.panic
          /\ exit_code = 1

\* C7: when the callback request carries no code, do_login returns an
\* explicit error: the process does not crash, and neither the token
\* exchange nor the save is performed.
C7_NoCodeIsAnError ==
    (Len(log) > 0 /\ Last.op = "do_login" /\ env.cb = "nocode")
    => /\ ~Last.panic
       /\ exit_code # 101
       /\ ~Last.res.ok
       /\ \A k \in 1..Len(Last.calls) :
              Last.calls[k] \notin {"exchange_code", "save"}

\* C9: a successful refresh returns and persists the newly issued access
\* token with the provider's new refresh token if there is one and the
\* original one otherwise, so the persisted pair has a refresh token; a
\* pair without refresh token gives "No refresh token available" with no
\* call to the provider and no write of the credential file.
C9_RefreshKeepsRefreshToken ==
    (Len(log) >= 2 /\ Last.op = "refresh")
    => LET self == log[Len(log) - 1].res.val
           before == log[Len(log) - 1].file
       IN  /\ Last.res.ok =>
                 /\ Last.res.val.access_token = env.reply.access_token
                 /\ Last.res.val.refresh_token =
                        IF env.reply.refresh_token # None
                        THEN env.reply.refresh_token
                        ELSE self.refresh_token
                 /\ Last.res.val.refresh_token # None
                 /\ file = to_string(Last.res.val)
                 /\ load(file) = Last.res
           /\ self.refresh_token = None =>
                 /\ Last.res = Err("No refresh token available")
                 /\ Last.calls = <<>>
                 /\ file = before

\* a successful refresh for which the provider issued no new refresh token
C9_Witness ==
    /\ Len(log) >= 2
    /\ Last.op = "refresh"
    /\ Last.res.ok
    /\ env.reply.ok
    /\ env.reply.refresh_token = None
    /\ Last.res.val.refresh_token = log[Len(log) - 1].res.val.refresh_token
    /\ Last.res.val.access_token # log[Len(log) - 1].res.val.access_token

\* the calendar request of this invocation succeeded, deserialization
\* included where the mode deserializes
Fetched ==
    /\ resp.net = "ok"
    /\ Mode(args) = "json" \/ resp.parse_ok

NothingForLinkOnly == Mode(args) = "only_link" /\ out = None

\* C10 as stated: the exit code is 0 whenever token acquisition and the
\* fetch succeed, in link-only mode with no meeting too, and 1 only when
\* one of them failed.
C10_ExitZeroUnlessFailure ==
    (pc = "exit" /\ Len(log) > 0)
    => /\ (cur.ok /\ Fetched) => exit_code = 0
       /\ exit_code = 1 => (~cur.ok \/ ~Fetched)

\* C10 amended: as C10, except that link-only mode with no selectable
\* meeting exits 1.
C10_ExitCodes ==
    (pc = "exit" /\ Len(log) > 0)
    => /\ (cur.ok /\ Fetched /\ ~NothingForLinkOnly) => exit_code = 0
       /\ (cur.ok /\ Fetched /\ NothingForLinkOnly) => exit_code = 1
       /\ exit_code = 1 => (~cur.ok \/ ~Fetched \/ NothingForLinkOnly)

\* link-only mode, tokens and events obtained, nothing selectable
C10_Witness ==
    /\ pc = "exit"
    /\ Mode(args) = "only_link"
    /\ cur.ok
    /\ Fetched
    /\ Len(resp.items) > 0
    /\ out = None
    /\ exit_code = 1

(***************************************************************************)
(* Properties of the functions of meetings.rs (SpecAccepted, SpecLink,     *)
(* SpecSelect), stated on the input without the scanning order of the code *)
(***************************************************************************)
Min(S) == CHOOSE x \in S : \A y \in S : x <= y
Max(S) == CHOOSE x \in S : \A y \in S : x >= y

\* the attendee entries that are the user's own and accepted
SelfAcceptedEntries(m) ==
    {i \in 1..Len(m.attendees) :
        m.attendees[i].is_self /\ m.attendees[i].response_status = "accepted"}

\* C5 as stated: a meeting is accepted iff exactly one attendee entry is
\* the user's own with status accepted.
C5_AcceptedIffExactlyOne ==
    pc = "accepted_done" =>
        (out <=> Cardinality(SelfAcceptedEntries(resp.items[1])) = 1)

\* C5 amended: a meeting is accepted iff at least one attendee entry is
\* the user's own with status accepted.
C5_AcceptedIffSome ==
    pc = "accepted_done" =>
        (out <=> Cardinality(SelfAcceptedEntries(resp.items[1])) >= 1)

\* two own accepted entries, and an entry that is accepted but not the
\* user's own
C5_Witness ==
    /\ pc = "accepted_done"
    /\ Cardinality(SelfAcceptedEntries(resp.items[1])) = 2
    /\ \E i \in 1..Len(resp.items[1].attendees) :
           /\ ~resp.items[1].attendees[i].is_self
           /\ resp.items[1].attendees[i].response_status = "accepted"
    /\ out = TRUE

\* where a gather.town URL starts in a text
GatherStarts(d) ==
    {i \in 1..Len(d) : i < Len(d) /\ d[i] = "H" /\ d[i + 1] = "A"}

\* where a URL holding zoom.us starts in a text
ZoomStarts(d) ==
    {i \in 1..Len(d) :
        /\ d[i] = "H"
        /\ \E k \in (i + 1)..Len(d) :
               d[k] = "Z" /\ \A x \in i..k : NonSpace(d[x])}

\* the URL that starts at i: up to the next white space or quote
UrlAt(d, i) ==
    SubSeq(d, i, Max({j \in i..Len(d) : \A x \in i..j : NonSpace(d[x])}))

HasGather(m) == m.description # None /\ GatherStarts(m.description[1]) # {}
HasZoom(m) == m.description # None /\ ZoomStarts(m.description[1]) # {}
FirstGather(m) == UrlAt(m.description[1], Min(GatherStarts(m.description[1])))
FirstZoom(m) == UrlAt(m.description[1], Min(ZoomStarts(m.description[1])))

\* C6: get_link returns the first gather.town URL of the description, else
\* the first zoom.us URL of the description, else the native link, also
\* when the description is present without either; it returns none exactly
\* when none of the three is there.
C6_LinkPriority ==
    pc = "get_link_done" =>
        LET m == resp.items[1] IN
        /\ HasGather(m) => out = Some(FirstGather(m))
        /\ (~HasGather(m) /\ HasZoom(m)) => out = Some(FirstZoom(m))
        /\ (~HasGather(m) /\ ~HasZoom(m)) => out = m.hangout_link
        /\ out = None <=>
               (~HasGather(m) /\ ~HasZoom(m) /\ m.hangout_link = None)

\* a description with a zoom URL before a different gather URL, and a
\* native link: the gather URL is returned
C6_Witness ==
    /\ pc = "get_link_done"
    /\ HasGather(resp.items[1])
    /\ HasZoom(resp.items[1])
    /\ Min(ZoomStarts(resp.items[1].description[1]))
           < Min(GatherStarts(resp.items[1].description[1]))
    /\ FirstZoom(resp.items[1]) # FirstGather(resp.items[1])
    /\ resp.items[1].hangout_link # None
    /\ out = Some(FirstGather(resp.items[1]))

\* the link the rule of C6 gives a meeting
HasLink(m) == HasGather(m) \/ HasZoom(m) \/ m.hangout_link # None

ValidStart(m) == m.start # None /\ m.start[1].valid
ValidEnd(m) == m.end # None /\ m.end[1].valid
IsAccepted(m) == SelfAcceptedEntries(m) # {}

\* the positions of the meetings next_meeting may return
Survivors(ms, n) ==
    {i \in 1..Len(ms) :
        /\ IsAccepted(ms[i])
        /\ HasLink(ms[i])
        /\ ValidStart(ms[i])
        /\ ValidEnd(ms[i]) /\ ms[i].end[1].instant > n}

\* |start - now| in ticks
Distance(m, n) ==
    IF m.start[1].instant >= n THEN m.start[1].instant - n
    ELSE n - m.start[1].instant

\* |start - now| in whole seconds
DistanceSeconds(m, n) == Distance(m, n) \div TicksPerSec

\* C4 as stated: next_meeting returns none iff nothing survives, and else
\* the earliest in list order of the survivors whose |start - now| is
\* minimal.
C4_NearestByDistance ==
    pc = "next_meeting_done" =>
        LET ms == resp.items
            S == Survivors(ms, now)
        IN  /\ S = {} => out = None
            /\ S # {} =>
                 /\ out # None
                 /\ out[1] \in S
                 /\ \A j \in S :
                        /\ Distance(ms[out[1]], now) <= Distance(ms[j], now)
                        /\ Distance(ms[j], now) = Distance(ms[out[1]], now)
                               => out[1] <= j

\* C4 amended: the same with |start - now| counted in whole seconds, the
\* fraction dropped.
C4_NearestByWholeSeconds ==
    pc = "next_meeting_done" =>
        LET ms == resp.items
            S == Survivors(ms, now)
        IN  /\ S = {} => out = None
            /\ S # {} =>
                 /\ out # None
                 /\ out[1] \in S
                 /\ \A j \in S :
                        /\ DistanceSeconds(ms[out[1]], now)
                               <= DistanceSeconds(ms[j], now)
                        /\ DistanceSeconds(ms[j], now)
                               = DistanceSeconds(ms[out[1]], now)
                               => out[1] <= j

\* two survivors in the same whole second from now, the later in the list
\* nearer: the earlier is returned
C4_Witness ==
    /\ pc = "next_meeting_done"
    /\ Survivors(resp.items, now) = {1, 2}
    /\ DistanceSeconds(resp.items[1], now) = DistanceSeconds(resp.items[2], now)
    /\ Distance(resp.items[2], now) < Distance(resp.items[1], now)
    /\ out = Some(1)

\* the positions of the meetings retrieve_all has to return
Qualifying(ms) ==
    {i \in 1..Len(ms) :
        IsAccepted(ms[i]) /\ ValidStart(ms[i]) /\ HasLink(ms[i])}

\* C8: retrieve_all returns exactly the fetched meetings that are
\* accepted, have a parseable start and a link, whatever their end,
\* ordered ascending by start instant.
C8_AllMeetingsFilteredAndSorted ==
    pc = "retrieve_all_done" =>
        LET ms == resp.items IN
        /\ Len(out) = Cardinality(Qualifying(ms))
        /\ {out[k] : k \in 1..Len(out)} = Qualifying(ms)
        /\ \A a, b \in 1..Len(out) :
               a < b => ms[out[a]].start[1].instant <= ms[out[b]].start[1].instant

\* two qualifying meetings listed latest first, one of them over and the
\* other with no usable end: both returned, in start order
C8_Witness ==
    /\ pc = "retrieve_all_done"
    /\ Len(resp.items) = 2
    /\ Qualifying(resp.items) = {1, 2}
    /\ resp.items[1].start[1].instant > resp.items[2].start[1].instant
    /\ ValidEnd(resp.items[1]) /\ resp.items[1].end[1].instant <= now
    /\ ~ValidEnd(resp.items[2])
    /\ out = <<2, 1>>

(***************************************************************************)
(* How each mode gets its token (Spec)                                     *)
(***************************************************************************)
\* a load or a refresh of this invocation failed at position i of the log
TokenFailureAt(i) == log[i].op \in {"load", "refresh"} /\ ~log[i].res.ok

\* the failure at position i is followed by the Authorization Flow
LoginFollows(i) ==
    \/ Len(log) = i /\ pc \in {"login1", "login2"} /\ exit_code = Running
    \/ Len(log) > i /\ log[i + 1].op = "do_login"

\* the calendar is requested only with a token in hand
FetchOnlyWithToken ==
    /\ pc \in {"fetch", "present"} => cur.ok
    /\ resp # NotFetched => cur.ok

\* C11 as stated: in every mode a failed load or a failed refresh is
\* followed by an Authorization Flow attempt before the program gives up,
\* and the calendar is never requested without a token.
C11_EveryModeFallsBackToLogin ==
    /\ \A i \in 1..Len(log) : TokenFailureAt(i) => LoginFollows(i)
    /\ FetchOnlyWithToken

\* C11 amended: that holds in the raw JSON, all meetings, default and
\* link-only modes; in the full-record (-mf) and auxiliary-links (-al)
\* modes no Authorization Flow is ever attempted, and a failed load or
\* refresh ends the program with exit code 1 and no calendar request; in
\* every mode the calendar is never requested without a token.
C11_LoginFallbackExceptMachineModes ==
    /\ Mode(args) \notin {"machine_full", "additional_links"} =>
           \A i \in 1..Len(log) : TokenFailureAt(i) => LoginFollows(i)
    /\ Mode(args) \in {"machine_full", "additional_links"} =>
           /\ LoginCount = 0
           /\ pc \notin {"login1", "login2"}
           /\ \A i \in 1..Len(log) :
                  TokenFailureAt(i) =>
                      /\ Len(log) = i
                      /\ pc = "exit"
                      /\ exit_code = 1
                      /\ resp = NotFetched
    /\ FetchOnlyWithToken

\* -mf with a credential file that does not load: the program has given
\* up without an Authorization Flow and without a calendar request
C11_Witness ==
    /\ Mode(args) = "machine_full"
    /\ Len(log) = 1
    /\ log[1].op = "load" /\ ~log[1].res.ok
    /\ pc = "exit"
    /\ exit_code = 1
    /\ resp = NotFetched

====
